---- MODULE Spec2Model ----
(***************************************************************************)
(* A model of src/tides.py (class ScrapeTides): the tide-forecast scraper  *)
(* that locates the tide table of a location, reads its day headers, its   *)
(* sunrise/sunset row and its low-tide rows, and keeps the low tides that  *)
(* fall in daylight.                                                       *)
(*                                                                         *)
(* Text is a sequence of one-character strings, so that strip, split,      *)
(* replace and the strptime/fromisoformat/int/float conversions are        *)
(* computed character by character.  A Python value that may be None is a  *)
(* sequence of length 0 (None) or 1 (the value), except a time of day,     *)
(* which is <<hour, minute>> and None is <<>>.                             *)
(***************************************************************************)
EXTENDS Integers, Sequences, FiniteSets, TLC

VARIABLES
    location,          \* the "city, state" text handed to extract_tides
    web,               \* the site: URL -> <<>> (no tide table) or <<table>>
    requests,          \* the URLs fetched so far, in order (requests.get)
    table,             \* get_table's result: <<>> is None, else <<table>>
    dates_from_table,  \* get_dates_from_table's list of <<date, cols>>
    rise_and_set,      \* get_rise_and_set's result: <<>> is None, else <<list>>
    tides,             \* get_tides' defaultdict, as [key, val] in insertion order
    tides_for_location,\* get_tides' return value: <<>> is None, else <<tides>>
    tr_index,          \* get_tides: position of `for tr in trs` (0-based)
    day,               \* get_tides: local `day`
    td_index,          \* get_tides: local `td_index`
    filtered_tides,    \* extract_tides' defaultdict, as [key, val] in insertion order
    indx,              \* extract_tides: enumerate index of the filter loop
    pc,                \* where the call of extract_tides stands
    err                \* the exception that ended the call, <<>> when none

vars == <<location, web, requests, table, dates_from_table, rise_and_set, tides,
          tides_for_location, tr_index, day, td_index, filtered_tides, indx, pc, err>>

----------------------------------------------------------------------------
(* Text helpers: Python str methods on sequences of characters.            *)

None == <<>>

Digits == {"0", "1", "2", "3", "4", "5", "6", "7", "8", "9"}

DigitVal(c) ==
    CASE c = "0" -> 0 [] c = "1" -> 1 [] c = "2" -> 2 [] c = "3" -> 3
      [] c = "4" -> 4 [] c = "5" -> 5 [] c = "6" -> 6 [] c = "7" -> 7
      [] c = "8" -> 8 [] c = "9" -> 9

IsDigits(s) == \A i \in 1..Len(s) : s[i] \in Digits

RECURSIVE IntOfDigits(_)
IntOfDigits(s) ==
    IF s = <<>> THEN 0
    ELSE 10 * IntOfDigits(SubSeq(s, 1, Len(s) - 1)) + DigitVal(s[Len(s)])

RECURSIVE LStrip(_)
LStrip(s) == IF s # <<>> /\ Head(s) = " " THEN LStrip(Tail(s)) ELSE s

RECURSIVE RStrip(_)
RStrip(s) ==
    IF s # <<>> /\ s[Len(s)] = " " THEN RStrip(SubSeq(s, 1, Len(s) - 1)) ELSE s

\* str.strip()
Strip(s) == RStrip(LStrip(s))

\* str.replace(a, b) for one-character a and b
Replace(s, a, b) == [i \in 1..Len(s) |-> IF s[i] = a THEN b ELSE s[i]]

\* str.split(c): the parts between the occurrences of the character c
RECURSIVE Split(_, _)
Split(s, c) ==
    IF \A i \in 1..Len(s) : s[i] # c THEN <<s>>
    ELSE LET k == CHOOSE i \in 1..Len(s) : s[i] = c /\ \A j \in 1..(i - 1) : s[j] # c
         IN  <<SubSeq(s, 1, k - 1)>> \o Split(SubSeq(s, k + 1, Len(s)), c)

\* s[-2:]
LastTwo(s) == IF Len(s) <= 2 THEN s ELSE SubSeq(s, Len(s) - 1, Len(s))

\* s.upper() on the letters the AM/PM marker uses
Upper(s) ==
    [i \in 1..Len(s) |->
        CASE s[i] = "a" -> "A" [] s[i] = "p" -> "P" [] s[i] = "m" -> "M"
          [] OTHER -> s[i]]

----------------------------------------------------------------------------
(* Time/date normalizer.  A result that may raise is [exc, val]: exc is    *)
(* the exception's name, "" when the call returned val.                    *)

Ok(v) == [exc |-> "", val |-> v]
Raise(e) == [exc |-> e, val |-> <<>>]

fix_hour(hr) == IF LastTwo(hr) = <<"0", "0">> THEN <<"1", "2">> ELSE LastTwo(hr)

\* The unpacking of split(':') raises ValueError unless there are two parts.
force_hour_two_digits(time_str) ==
    LET parts == Split(<<"0">> \o Strip(time_str), ":")
    IN  IF Len(parts) # 2 THEN Raise("ValueError")
        ELSE Ok(fix_hour(parts[1]) \o <<":">> \o parts[2])

\* datetime.strptime(s, "%I:%M%p").time(): %I is 1[0-2]|0[1-9]|[1-9], %M is
\* [0-5]\d|\d, %p is am|pm in either case; the whole text has to match.
strptime_time(s) ==
    LET parts == Split(s, ":")
        hh == parts[1]
        rest == parts[2]
        mm == SubSeq(rest, 1, Len(rest) - 2)
        ap == Upper(SubSeq(rest, Len(rest) - 1, Len(rest)))
        hourOk == /\ Len(hh) \in {1, 2}
                  /\ IsDigits(hh)
                  /\ IntOfDigits(hh) \in 1..12
                  /\ (Len(hh) = 1 => hh # <<"0">>)
        minOk == /\ Len(mm) \in {1, 2}
                 /\ IsDigits(mm)
                 /\ IntOfDigits(mm) \in 0..59
        h12 == IntOfDigits(hh) % 12
    IN  IF Len(parts) = 2 /\ Len(rest) >= 3 /\ hourOk /\ minOk
           /\ ap \in {<<"A", "M">>, <<"P", "M">>}
        THEN Ok(<<IF ap = <<"P", "M">> THEN h12 + 12 ELSE h12, IntOfDigits(mm)>>)
        ELSE Raise("ValueError")

\* except ValueError: return None
parse_time_str(time_str) ==
    LET forced == force_hour_two_digits(time_str)
        parsed == IF forced.exc = "" THEN strptime_time(forced.val) ELSE forced
    IN  IF parsed.exc = "" THEN parsed.val ELSE None

----------------------------------------------------------------------------
(* The page's markup.  A table is [ths, trs]; a th is a record of its      *)
(* attributes (data_date, and colspan when the header has one); a tr is    *)
(* [class, tds]; a td is [class, divs]; a div is [text, spans]; a span is  *)
(* [class, text].  class is the set of the node's class names.             *)

BASE_URL == "https://www.tide-forecast.com"

RECURSIVE Concat(_)
Concat(ss) == IF ss = <<>> THEN <<>> ELSE Head(ss) \o Concat(Tail(ss))

\* node.text: the text of the node and of all its descendants
DivText(div) == div.text \o Concat([i \in 1..Len(div.spans) |-> div.spans[i].text])
TdText(td) == Concat([i \in 1..Len(td.divs) |-> DivText(td.divs[i])])

\* every span under a td, in document order
TdSpans(td) == Concat([i \in 1..Len(td.divs) |-> td.divs[i].spans])

\* container.find('span', attrs={'class': cls}): <<>> is None, else <<span>>
FindSpan(spans, cls) ==
    LET hits == SelectSeq(spans, LAMBDA sp : cls \in sp.class)
    IN  IF hits = <<>> THEN <<>> ELSE <<Head(hits)>>

----------------------------------------------------------------------------
(* Table locator.                                                          *)

\* city, state = location.strip().split(','): ValueError unless two parts
parse_location(loc) ==
    LET parts == Split(Strip(loc), ",")
    IN  IF Len(parts) # 2 THEN Raise("ValueError")
        ELSE Ok(Replace(Strip(parts[1]), " ", "-") \o <<"-">>
                \o Replace(Strip(parts[2]), " ", "-"))

\* get_location_without_state that keeps the state
get_location_with_state(loc) == parse_location(loc)

get_location_without_state(loc) ==
    LET parts == Split(Strip(loc), ",")
    IN  IF Len(parts) # 2 THEN Raise("ValueError")
        ELSE Ok(Replace(Strip(parts[1]), " ", "-"))

\* f"{BASE_URL}/locations/{slug}/tides/latest"
Url(slug) == [base |-> BASE_URL, locations |-> slug, page |-> "tides/latest"]

\* get_from_url: the page's tide table, None when the page has none
get_from_url(url) == IF url \in DOMAIN web THEN web[url] ELSE <<>>

----------------------------------------------------------------------------
(* Day-column resolver.                                                    *)

DaysIn(y, m) ==
    IF m \in {4, 6, 9, 11} THEN 30
    ELSE IF m # 2 THEN 31
    ELSE IF y % 4 = 0 /\ (y % 100 # 0 \/ y % 400 = 0) THEN 29 ELSE 28

\* date.fromisoformat on YYYY-MM-DD: <<year, month, day>>
fromisoformat(s) ==
    LET y == IntOfDigits(SubSeq(s, 1, 4))
        m == IntOfDigits(SubSeq(s, 6, 7))
        d == IntOfDigits(SubSeq(s, 9, 10))
    IN  IF /\ Len(s) = 10
           /\ s[5] = "-" /\ s[8] = "-"
           /\ IsDigits(SubSeq(s, 1, 4)) /\ IsDigits(SubSeq(s, 6, 7))
           /\ IsDigits(SubSeq(s, 9, 10))
           /\ y >= 1 /\ m \in 1..12 /\ d >= 1 /\ d <= DaysIn(y, m)
        THEN Ok(<<y, m, d>>)
        ELSE Raise("ValueError")

\* int(text) for an optionally signed decimal numeral
int(s) ==
    LET t == Strip(s)
        signed == t # <<>> /\ Head(t) \in {"-", "+"}
        body == IF signed THEN Tail(t) ELSE t
    IN  IF body # <<>> /\ IsDigits(body)
        THEN Ok(IF signed /\ Head(t) = "-" THEN 0 - IntOfDigits(body)
                ELSE IntOfDigits(body))
        ELSE Raise("ValueError")

\* int(th.attrs.get('colspan', 0))
Colspan(th) == IF "colspan" \in DOMAIN th THEN int(th.colspan) ELSE Ok(0)

\* [(date.fromisoformat(th.attrs['data-date']), int(th.attrs.get('colspan', 0)))
\*  for th in ths]
get_dates_from_table(tbl) ==
    LET ths == tbl.ths
        bad == {i \in 1..Len(ths) :
                   \/ "data_date" \notin DOMAIN ths[i]
                   \/ fromisoformat(ths[i].data_date).exc # ""
                   \/ Colspan(ths[i]).exc # ""}
        first == CHOOSE i \in bad : \A j \in bad : i <= j
    IN  IF bad # {}
        THEN Raise(IF "data_date" \notin DOMAIN ths[first] THEN "KeyError"
                   ELSE "ValueError")
        ELSE Ok([i \in 1..Len(ths) |->
                    <<fromisoformat(ths[i].data_date).val, Colspan(ths[i]).val>>])

----------------------------------------------------------------------------
(* Tide row extractor: one cell.                                           *)

\* float(text) for digits with an optional fraction: <<whole, fraction digits>>
float(s) ==
    LET t == Strip(s)
        parts == Split(t, ".")
    IN  IF /\ Len(parts) \in {1, 2}
           /\ \A i \in 1..Len(parts) : IsDigits(parts[i])
           /\ \E i \in 1..Len(parts) : parts[i] # <<>>
        THEN Ok(<<IntOfDigits(parts[1]), IF Len(parts) = 2 THEN parts[2] ELSE <<>>>>)
        ELSE Raise("ValueError")

get_value_height_unit(spans) ==
    [value |-> FindSpan(spans, "tide-table__value-low"),
     height |-> FindSpan(spans, "tide-table__height"),
     units |-> FindSpan(spans, "tide-table__units")]

\* row = (self.parse_time_str(value.text), float(height.text), units.text)
Row(value, height, units) ==
    IF height.exc # "" THEN height
    ELSE Ok(<< <<parse_time_str(value.text), height.val, units.text>> >>)

\* if all((value, height, units)): data.append(row), for one container
RowsOf(vhu) ==
    IF vhu.value # <<>> /\ vhu.height # <<>> /\ vhu.units # <<>>
    THEN Row(vhu.value[1], float(vhu.height[1].text), vhu.units[1])
    ELSE Ok(<<>>)

\* the rows of two containers, one after the other
Both(a, b) ==
    IF a.exc # "" THEN a
    ELSE IF b.exc # "" THEN b
    ELSE Ok(a.val \o b.val)

\* get_data with the loop over the divs searching the whole td each time
get_data_searching_td(td) ==
    IF Len(td.divs) = 1 THEN RowsOf(get_value_height_unit(TdSpans(td)))
    ELSE IF Len(td.divs) = 2
    THEN Both(RowsOf(get_value_height_unit(TdSpans(td))),
              RowsOf(get_value_height_unit(TdSpans(td))))
    ELSE Ok(<<>>)

\* get_data(td): one div searches the whole td, two divs search each div,
\* any other number of divs gives nothing
get_data(td) ==
    IF Len(td.divs) = 1 THEN RowsOf(get_value_height_unit(TdSpans(td)))
    ELSE IF Len(td.divs) = 2
    THEN Both(RowsOf(get_value_height_unit(td.divs[1].spans)),
              RowsOf(get_value_height_unit(td.divs[2].spans)))
    ELSE Ok(<<>>)

\* has_tide_info(tr, 'low')
has_tide_info(tr) ==
    \E i \in 1..Len(tr.tds) : "tide-table__part--low" \in tr.tds[i].class

----------------------------------------------------------------------------
(* Sunrise/sunset extractor.                                               *)

\* the loop `for td in tds` of get_rise_and_set, from cell i on
RECURSIVE SunScan(_, _, _, _, _)
SunScan(tds, i, sunrise, sunset, times_) ==
    IF i > Len(tds)
    THEN IF sunrise # None /\ sunset # None
         THEN <<<<sunrise, sunset>>>> \o times_
         ELSE times_
    ELSE LET td == tds[i]
             first == parse_time_str(Strip(DivText(td.divs[1])))
             data == [k \in 1..Len(td.divs) |->
                         parse_time_str(Strip(DivText(td.divs[k])))]
         IN  IF TdText(td) = <<>> THEN SunScan(tds, i + 1, sunrise, sunset, times_)
             ELSE IF sunrise = None THEN SunScan(tds, i + 1, first, sunset, times_)
             ELSE IF sunset = None THEN SunScan(tds, i + 1, sunrise, first, times_)
             ELSE IF data # <<>> /\ data # <<None, None>>
             THEN SunScan(tds, i + 1, sunrise, sunset, Append(times_, data))
             ELSE SunScan(tds, i + 1, sunrise, sunset, times_)

SunTds(tr) == SelectSeq(tr.tds, LAMBDA td : "tide-table__part--sun" \in td.class)

\* get_rise_and_set: the first row that has sun cells decides; None (here <<>>)
\* when no row has any, else <<times_>>
get_rise_and_set(tbl) ==
    LET rows == SelectSeq(tbl.trs, LAMBDA tr : SunTds(tr) # <<>>)
    IN  IF rows = <<>> THEN <<>>
        ELSE <<SunScan(SunTds(Head(rows)), 1, None, None, <<>>)>>

----------------------------------------------------------------------------
(* Python's insertion-ordered dict, as a sequence of [key, val].           *)

Keys(d) == {d[i].key : i \in 1..Len(d)}

Get(d, k) == (CHOOSE i \in 1..Len(d) : d[i].key = k)

ValueOf(d, k) == d[Get(d, k)].val

\* d[k] = v: a known key keeps its place
Put(d, k, v) ==
    IF k \in Keys(d) THEN [d EXCEPT ![Get(d, k)].val = v]
    ELSE Append(d, [key |-> k, val |-> v])

\* d[k].extend(data) on a defaultdict(list): the key is made when missing
Extend(d, k, data) ==
    IF k \in Keys(d) THEN [d EXCEPT ![Get(d, k)].val = @ \o data]
    ELSE Append(d, [key |-> k, val |-> data])

----------------------------------------------------------------------------
(* Tide row extractor: one pass of `while True` over the cells of a row.   *)

\* table.find_all('tr', attrs={'class': 'tide-table__separator'})
SeparatorRows(tbl) ==
    SelectSeq(tbl.trs, LAMBDA tr : "tide-table__separator" \in tr.class)

\* `for _ in range(0, cols)`: the readings of the next `cols` cells, read from
\* cell td_i on; IndexError when a cell past the end of the row is read
RECURSIVE ConsumeCols(_, _, _, _)
ConsumeCols(tds, td_i, cols, acc) ==
    IF acc.exc # "" \/ cols <= 0 THEN acc
    ELSE IF td_i >= Len(tds) THEN Raise("IndexError")
    ELSE ConsumeCols(tds, td_i + 1, cols - 1, Both(acc, get_data(tds[td_i + 1])))

\* how many cells a day of `cols` columns takes from the row
CellsOf(cols) == IF cols = 0 THEN 1 ELSE IF cols > 0 THEN cols ELSE 0

\* tides[dt] = self.get_data(td)
AssignDay(acc, dt, data) ==
    IF data.exc # "" THEN [exc |-> data.exc, tides |-> acc]
    ELSE [exc |-> "", tides |-> Put(acc, dt, data.val)]

\* if data: tides[dt].extend(data), for the cells of one day
ExtendDay(acc, dt, data) ==
    IF data.exc # "" THEN [exc |-> data.exc, tides |-> acc]
    ELSE [exc |-> "", tides |-> IF data.val # <<>> THEN Extend(acc, dt, data.val)
                                ELSE acc]

\* the body of `while True` below the return: [exc, tides], the exception
\* raised or the mapping after the day's cells
WhileBody(tds, dates, d, td_i, acc) ==
    IF d >= Len(dates) THEN [exc |-> "IndexError", tides |-> acc]
    ELSE IF dates[d + 1][2] = 0
    THEN AssignDay(acc, dates[d + 1][1], get_data(tds[td_i + 1]))
    ELSE ExtendDay(acc, dates[d + 1][1],
                   ConsumeCols(tds, td_i, dates[d + 1][2], Ok(<<>>)))

----------------------------------------------------------------------------
(* Daylight filter.                                                        *)

\* a <= b on datetime.time
TimeLe(a, b) == a[1] < b[1] \/ (a[1] = b[1] /\ a[2] <= b[2])

\* a < b on datetime.time
TimeLt(a, b) == a[1] < b[1] \/ (a[1] = b[1] /\ a[2] < b[2])

\* the comparison with the sunrise and sunset instants themselves left out
InDaylightExclusive(ras, i, tide_time) ==
    IF ras = <<>> THEN Raise("TypeError")
    ELSE IF i >= Len(ras[1]) THEN Raise("IndexError")
    ELSE LET w == ras[1][i + 1]
         IN  IF w[1] = None \/ tide_time = None THEN Raise("TypeError")
             ELSE IF ~TimeLt(w[1], tide_time) THEN Ok(FALSE)
             ELSE IF Len(w) < 2 THEN Raise("IndexError")
             ELSE IF w[2] = None THEN Raise("TypeError")
             ELSE Ok(TimeLt(tide_time, w[2]))

\* the comparison with a day that has no sun window taken as night
InDaylightOrNoWindow(ras, i, tide_time) ==
    IF ras = <<>> THEN Ok(FALSE)
    ELSE IF i >= Len(ras[1]) THEN Ok(FALSE)
    ELSE LET w == ras[1][i + 1]
         IN  IF w[1] = None \/ tide_time = None THEN Raise("TypeError")
             ELSE IF ~TimeLe(w[1], tide_time) THEN Ok(FALSE)
             ELSE IF Len(w) < 2 THEN Raise("IndexError")
             ELSE IF w[2] = None THEN Raise("TypeError")
             ELSE Ok(TimeLe(tide_time, w[2]))

\* rise_and_set[indx][0] <= tide_time <= rise_and_set[indx][1], evaluated left
\* to right: Ok(TRUE), Ok(FALSE), or the exception the expression raises
InDaylight(ras, i, tide_time) ==
    IF ras = <<>> THEN Raise("TypeError")
    ELSE IF i >= Len(ras[1]) THEN Raise("IndexError")
    ELSE LET w == ras[1][i + 1]
         IN  IF w[1] = None \/ tide_time = None THEN Raise("TypeError")
             ELSE IF ~TimeLe(w[1], tide_time) THEN Ok(FALSE)
             ELSE IF Len(w) < 2 THEN Raise("IndexError")
             ELSE IF w[2] = None THEN Raise("TypeError")
             ELSE Ok(TimeLe(tide_time, w[2]))

\* the loop over one day's tide_data, from reading k on: the readings kept
\* if ...: filtered_tides[dt].append((tide_time, value, units))
Keep(kept, reading, keep) ==
    IF keep.exc # "" THEN keep
    ELSE IF keep.val THEN Ok(Append(kept, reading))
    ELSE Ok(kept)

RECURSIVE FilterDay(_, _, _, _, _)
FilterDay(tide_data, ras, i, k, kept) ==
    IF kept.exc # "" \/ k > Len(tide_data) THEN kept
    ELSE FilterDay(tide_data, ras, i, k + 1,
                   Keep(kept.val, tide_data[k], InDaylight(ras, i, tide_data[k][1])))

----------------------------------------------------------------------------
(* extract_tides, step by step.                                            *)

Fail(e, where) ==
    /\ pc' = "error"
    /\ err' = <<[exc |-> e, in |-> where]>>

\* get_table: the state-qualified URL
GetTable ==
    /\ pc = "get_table"
    /\ LET slug == parse_location(location)
           found == get_from_url(Url(slug.val))
       IN  IF slug.exc # ""
           THEN /\ Fail(slug.exc, "parse_location")
                /\ UNCHANGED <<requests, table>>
           ELSE /\ requests' = Append(requests, Url(slug.val))
                /\ table' = found
                /\ pc' = IF found # <<>> THEN "get_dates_from_table" ELSE "fallback"
                /\ err' = err
    /\ UNCHANGED <<location, web, dates_from_table, rise_and_set, tides,
                   tides_for_location, tr_index, day, td_index, filtered_tides, indx>>

\* get_table: location not found; try without state name
GetTableWithoutState ==
    /\ pc = "fallback"
    /\ LET slug == get_location_without_state(location)
       IN  /\ requests' = Append(requests, Url(slug.val))
           /\ table' = get_from_url(Url(slug.val))
           /\ pc' = "get_dates_from_table"
    /\ UNCHANGED <<location, web, dates_from_table, rise_and_set, tides,
                   tides_for_location, tr_index, day, td_index, filtered_tides, indx,
                   err>>

\* dates_from_table = self.get_dates_from_table(table)
GetDatesFromTable ==
    /\ pc = "get_dates_from_table"
    /\ IF table = <<>>
       THEN /\ Fail("AttributeError", "get_dates_from_table")
            /\ UNCHANGED dates_from_table
       ELSE LET r == get_dates_from_table(table[1])
            IN  IF r.exc # ""
                THEN /\ Fail(r.exc, "get_dates_from_table")
                     /\ UNCHANGED dates_from_table
                ELSE /\ dates_from_table' = r.val
                     /\ pc' = "get_rise_and_set"
                     /\ err' = err
    /\ UNCHANGED <<location, web, requests, table, rise_and_set, tides,
                   tides_for_location, tr_index, day, td_index, filtered_tides, indx>>

\* rise_and_set = self.get_rise_and_set(table)
GetRiseAndSet ==
    /\ pc = "get_rise_and_set"
    /\ rise_and_set' = get_rise_and_set(table[1])
    /\ pc' = "for_tr"
    /\ UNCHANGED <<location, web, requests, table, dates_from_table, tides,
                   tides_for_location, tr_index, day, td_index, filtered_tides, indx,
                   err>>

\* get_tides: `for tr in trs`, up to the entry of `while True`; running off the
\* end of the loop returns None
GetTidesForTr ==
    /\ pc = "for_tr"
    /\ LET trs == SeparatorRows(table[1])
       IN  IF tr_index >= Len(trs)
           THEN /\ tides_for_location' = <<>>
                /\ pc' = "filter"
                /\ UNCHANGED <<tr_index, day, td_index>>
           ELSE IF ~has_tide_info(trs[tr_index + 1])
           THEN /\ tr_index' = tr_index + 1
                /\ UNCHANGED <<tides_for_location, pc, day, td_index>>
           ELSE /\ day' = 0
                /\ td_index' = 0
                /\ pc' = "while"
                /\ UNCHANGED <<tides_for_location, tr_index>>
    /\ UNCHANGED <<location, web, requests, table, dates_from_table, rise_and_set,
                   tides, filtered_tides, indx, err>>

\* the row `for tr in trs` stands at
CurrentTr == SeparatorRows(table[1])[tr_index + 1]

\* where one pass of `while True` leaves get_tides
AfterWhileBody(r) ==
    IF r.exc # ""
    THEN /\ Fail(r.exc, "get_tides")
         /\ UNCHANGED <<tides, tides_for_location, day, td_index>>
    ELSE /\ tides' = r.tides
         /\ td_index' = td_index + CellsOf(dates_from_table[day + 1][2])
         /\ day' = day + 1
         /\ UNCHANGED <<tides_for_location, pc, err>>

\* get_tides: one pass of `while True`
GetTidesWhile ==
    /\ pc = "while"
    /\ IF td_index >= Len(CurrentTr.tds)
       THEN /\ tides_for_location' = <<tides>>
            /\ pc' = "filter"
            /\ UNCHANGED <<tides, day, td_index, err>>
       ELSE AfterWhileBody(WhileBody(CurrentTr.tds, dates_from_table, day,
                                     td_index, tides))
    /\ UNCHANGED <<location, web, requests, table, dates_from_table, rise_and_set,
                   tr_index, filtered_tides, indx>>

\* where the readings kept of one day leave extract_tides
AfterFilterDay(dt, kept) ==
    IF kept.exc # ""
    THEN /\ Fail(kept.exc, "extract_tides")
         /\ UNCHANGED <<filtered_tides, indx>>
    ELSE /\ filtered_tides' = IF kept.val # <<>>
                              THEN Extend(filtered_tides, dt, kept.val)
                              ELSE filtered_tides
         /\ indx' = indx + 1
         /\ UNCHANGED <<pc, err>>

\* extract_tides: one pass of `for indx, (dt, tide_data) in enumerate(...)`,
\* or the return of filtered_tides when the loop is over
Filter ==
    /\ pc = "filter"
    /\ IF tides_for_location = <<>>
       THEN /\ Fail("AttributeError", "extract_tides")
            /\ UNCHANGED <<filtered_tides, indx>>
       ELSE IF indx >= Len(tides_for_location[1])
       THEN /\ pc' = "done"
            /\ UNCHANGED <<filtered_tides, indx, err>>
       ELSE AfterFilterDay(tides_for_location[1][indx + 1].key,
                           FilterDay(tides_for_location[1][indx + 1].val,
                                     rise_and_set, indx, 1, Ok(<<>>)))
    /\ UNCHANGED <<location, web, requests, table, dates_from_table, rise_and_set,
                   tides, tides_for_location, tr_index, day, td_index>>

Next ==
    \/ GetTable
    \/ GetTableWithoutState
    \/ GetDatesFromTable
    \/ GetRiseAndSet
    \/ GetTidesForTr
    \/ GetTidesWhile
    \/ Filter

----------------------------------------------------------------------------
(* The pages extract_tides is run on.                                      *)

MaxDays == 2      \* day headers of a table
MaxCols == 2      \* largest colspan of a day header
MaxRows == 2      \* tide separator rows of a table
MaxCells == 3     \* cells of a tide separator row
MaxSunCells == 3  \* cells of the sunrise/sunset row
MaxDivs == 3      \* nested value groups of one tide cell

SeqsOf(S, lo, hi) == UNION {[1..n -> S] : n \in lo..hi}

DigitChar(n) == <<"0", "1", "2", "3", "4", "5", "6", "7", "8", "9">>[n + 1]

\* time texts as the site prints them
T0559AM == <<"5", ":", "5", "9", "A", "M">>
T0600AM == <<"6", ":", "0", "0", "A", "M">>
T1200PM == <<"0", "0", ":", "0", "0", "P", "M">>
T0530PM == <<" ", "5", ":", "3", "0", "p", "m">>
T0531PM == <<"5", ":", "3", "1", "P", "M">>
TNoTime == <<"-", "-">>

\* <th class="tide-table__day" data-date="2024-11-0d" [colspan="c"]>
Th(i, c) ==
    LET iso == <<"2", "0", "2", "4", "-", "1", "1", "-", "0", DigitChar(3 + i)>>
    IN  IF c = 0 THEN [data_date |-> iso]
        ELSE [data_date |-> iso, colspan |-> <<DigitChar(c)>>]

\* the headers of n days with the colspans cs
Ths(cs) == [i \in 1..Len(cs) |-> Th(i, cs[i])]

Span(cls, txt) == [class |-> {cls}, text |-> txt]

\* one nested value group: the spans that are present, in page order
Group(value, height, units) ==
    [text |-> <<>>,
     spans |-> (IF value = <<>> THEN <<>> ELSE <<Span("tide-table__value-low", value[1])>>)
            \o (IF height = <<>> THEN <<>> ELSE <<Span("tide-table__height", height[1])>>)
            \o (IF units = <<>> THEN <<>> ELSE <<Span("tide-table__units", units[1])>>)]

Ft == <<"f", "t">>
H12 == <<"1", ".", "2">>
H08 == <<"0", ".", "8">>

Reading(t) == Group(<<t>>, <<H12>>, <<Ft>>)

LowTd(divs) == [class |-> {"tide-table__part", "tide-table__part--low"}, divs |-> divs]

HighTd ==
    [class |-> {"tide-table__part", "tide-table__part--high"},
     divs |-> <<[text |-> <<>>,
                 spans |-> <<Span("tide-table__value-high", T1200PM),
                             Span("tide-table__height", H12),
                             Span("tide-table__units", Ft)>>]>>]

SunTd(texts) ==
    [class |-> {"tide-table__part", "tide-table__part--sun"},
     divs |-> [i \in 1..Len(texts) |-> [text |-> texts[i], spans |-> <<>>]]]

SeparatorTr(tds) == [class |-> {"tide-table__separator"}, tds |-> tds]

SunTr(tds) == [class |-> {"tide-table__sun"}, tds |-> tds]

\* the sun row of a well-formed page of n days: sunrise and sunset of the first
\* day in a cell each, then one cell with both times for every later day
StdSunTr(n, sunset0) ==
    SunTr(<<SunTd(<<T0600AM>>), SunTd(<<sunset0>>)>>
          \o [i \in 1..(n - 1) |-> SunTd(<<T0600AM, T0530PM>>)])

Table(ths, sunTrs, sepTrs) == [ths |-> ths, trs |-> sunTrs \o sepTrs]

\* --- tables that vary the tide readings around the daylight window
BoundaryTexts == {T0559AM, T0600AM, T0530PM, T0531PM}

FilterCells ==
    {LowTd(<<>>)}
    \cup {LowTd(<<Reading(t)>>) : t \in BoundaryTexts \cup {T1200PM, TNoTime}}
    \cup {LowTd(<<Reading(t), Reading(u)>>) : t \in BoundaryTexts, u \in BoundaryTexts}

BoundaryTables ==
    {Table(Ths([i \in 1..Len(tds) |-> 0]),
           <<StdSunTr(Len(tds), T0530PM)>>,
           <<SeparatorTr(tds)>>) : tds \in SeqsOf(FilterCells, 1, MaxDays)}

\* --- tables that vary the sunrise/sunset row
SunCells ==
    {SunTd(<<>>), SunTd(<<T0600AM>>), SunTd(<<T0530PM>>),
     SunTd(<<T0600AM, T1200PM>>), SunTd(<<TNoTime, TNoTime>>),
     SunTd(<<T0600AM, TNoTime>>)}

SunTables ==
    {Table(Ths([i \in 1..Len(tds) |-> 0]), sun, <<SeparatorTr(tds)>>) :
        tds \in SeqsOf({LowTd(<<>>), LowTd(<<Reading(T0600AM)>>)}, 1, MaxDays),
        sun \in {<<>>} \cup {<<SunTr(c)>> : c \in SeqsOf(SunCells, 1, MaxSunCells)}}

\* --- tables that vary the day headers and the tide rows
TideCells == {LowTd(<<>>), LowTd(<<Reading(T0530PM)>>), HighTd}

TideTables ==
    {Table(Ths(cs), <<StdSunTr(Len(cs), T1200PM)>>, rows) :
        cs \in SeqsOf(0..MaxCols, 1, MaxDays),
        rows \in SeqsOf({SeparatorTr(tds) : tds \in SeqsOf(TideCells, 0, MaxCells)},
                        0, MaxRows)}

\* --- tables that vary the markup of one tide cell
Groups ==
    {Group(v, h, u) : v \in {<<>>, <<T0600AM>>}, h \in {<<>>, <<H12>>, <<H08>>},
                      u \in {<<>>, <<Ft>>}}

CellTables ==
    {Table(Ths(<<0>>), <<StdSunTr(1, T0530PM)>>, <<SeparatorTr(<<LowTd(divs)>>)>>) :
        divs \in SeqsOf(Groups, 0, MaxDivs)}

\* --- locations and the two pages of each
TheLocation == <<"W", " ", "B", ",", " ", "N", "C">>

Locations ==
    {TheLocation, <<" ", "H", " ", "M", " ", "B", ",", "C", "A", " ">>,
     <<"N", "C">>}

FallbackTables ==
    {Table(Ths(<<0>>), <<StdSunTr(1, T0530PM)>>,
           <<SeparatorTr(<<HighTd>>), SeparatorTr(<<LowTd(<<Reading(t)>>)>>)>>) :
        t \in {T0600AM, T0531PM}}

Site(loc, first, second) == [loc |-> loc, first |-> first, second |-> second]

\* a location whose state-qualified page has the table, and the two cases of a
\* location whose state-qualified page has none
Sites(tables) ==
    {Site(TheLocation, <<t>>, <<>>) : t \in tables}
    \cup {Site(TheLocation, <<>>, <<t>>) : t \in FallbackTables}
    \cup {Site(TheLocation, <<>>, <<>>)}

FetchSites ==
    {Site(loc, first, second) :
        loc \in Locations,
        first \in {<<>>} \cup {<<t>> : t \in FallbackTables},
        second \in {<<>>} \cup {<<t>> : t \in FallbackTables}}

StateUrl(loc) == Url(parse_location(loc).val)
CityUrl(loc) == Url(get_location_without_state(loc).val)

InitOn(sites) ==
    \E s \in sites :
        /\ location = s.loc
        /\ web = [u \in {StateUrl(s.loc), CityUrl(s.loc)} |->
                     IF u = StateUrl(s.loc) THEN s.first ELSE s.second]
        /\ requests = <<>>
        /\ table = <<>>
        /\ dates_from_table = <<>>
        /\ rise_and_set = <<>>
        /\ tides = <<>>
        /\ tides_for_location = <<>>
        /\ tr_index = 0
        /\ day = 0
        /\ td_index = 0
        /\ filtered_tides = <<>>
        /\ indx = 0
        /\ pc = "get_table"
        /\ err = <<>>

Init == InitOn(Sites(BoundaryTables \cup SunTables))
InitTides == InitOn(Sites(TideTables))
InitCell == InitOn(Sites(CellTables))
InitFetch == InitOn(FetchSites)

\* extract_tides on pages that vary the readings and the sun row
Spec == Init /\ [][Next]_vars
\* extract_tides on pages that vary the day headers and the tide rows
SpecTides == InitTides /\ [][Next]_vars
\* extract_tides on pages that vary the markup of one tide cell
SpecCell == InitCell /\ [][Next]_vars
\* extract_tides on locations whose pages have or lack the table
SpecFetch == InitFetch /\ [][Next]_vars

----------------------------------------------------------------------------
(* What the properties below speak of.                                     *)

\* minutes since midnight of a time of day
Minutes(t) == 60 * t[1] + t[2]

\* t lies in the window w = <<sunrise, sunset>>, both ends included
Within(w, t) ==
    /\ Len(w) >= 2
    /\ w[1] # None /\ w[2] # None /\ t # None
    /\ Minutes(w[1]) <= Minutes(t)
    /\ Minutes(t) <= Minutes(w[2])

\* the mapping get_tides returned
Items == tides_for_location[1]

\* the readings a mapping holds for a date, none when the date is no key
ReadingsOf(d, dt) == IF dt \in Keys(d) THEN ValueOf(d, dt) ELSE <<>>

\* the i-th sun window get_rise_and_set extracted (from 1), <<>> when there is none
WindowAt(i) ==
    IF rise_and_set # <<>> /\ i <= Len(rise_and_set[1]) THEN rise_and_set[1][i]
    ELSE <<>>

\* the readings of a sequence that lie in the window w, in their order
Daylight(readings, w) == SelectSeq(readings, LAMBDA r : Within(w, r[1]))

Times(readings) == [k \in 1..Len(readings) |-> readings[k][1]]

\* get_tides stands in, or has left, the cells of the row CurrentTr
RowEntered ==
    \/ pc = "while"
    \/ pc = "error" /\ err[1].in = "get_tides"
    \/ tides_for_location # <<>>

GetTidesRaised == pc = "error" /\ err[1].in = "get_tides"

FilterRaised == pc = "error" /\ err[1].in = "extract_tides"

\* the cells the DayColumn sequence accounts for
RECURSIVE TotalCells(_)
TotalCells(dates) ==
    IF dates = <<>> THEN 0 ELSE CellsOf(Head(dates)[2]) + TotalCells(Tail(dates))

----------------------------------------------------------------------------
----------------------------------------------------------------------------
(* C2: when extract_tides is done, the readings of the date at position i  *)
(* of the DayColumn sequence have been filtered against the i-th sun       *)
(* window of get_rise_and_set, whatever the other days hold.               *)
C2_PositionalAlignment ==
    pc = "done" =>
        \A i \in 1..Len(dates_from_table) :
            ReadingsOf(filtered_tides, dates_from_table[i][1])
                = Daylight(ReadingsOf(Items, dates_from_table[i][1]), WindowAt(i))

----------------------------------------------------------------------------
(* C3: a row with more cells than the DayColumn sequence can consume does  *)
(* not make get_tides raise.                                               *)
C3_TooManyCellsReturns ==
    (RowEntered /\ Len(CurrentTr.tds) > TotalCells(dates_from_table))
        => ~GetTidesRaised

----------------------------------------------------------------------------
(* C4: the mapping get_tides returns holds, for every date, the readings   *)
(* of all the separator rows that have a low-tide cell, in row order.      *)
QualifyingRows == SelectSeq(SeparatorRows(table[1]), has_tide_info)

\* the readings of the cells of row tr that belong to day i
DayReadings(tr, i) ==
    LET before == TotalCells(SubSeq(dates_from_table, 1, i - 1))
        upto == before + CellsOf(dates_from_table[i][2])
        last == IF upto <= Len(tr.tds) THEN upto ELSE Len(tr.tds)
    IN  Concat([k \in 1..(last - before) |-> get_data(tr.tds[before + k]).val])

C4_EveryRowProcessed ==
    tides_for_location # <<>> =>
        \A i \in 1..Len(dates_from_table) :
            ReadingsOf(Items, dates_from_table[i][1])
                = Concat([r \in 1..Len(QualifyingRows) |->
                             DayReadings(QualifyingRows[r], i)])

----------------------------------------------------------------------------
(* C5: when the row has no more cells than the DayColumn sequence accounts *)
(* for, no cell past the end of the row is read and get_tides returns with *)
(* as many cells consumed as the row has.                                  *)
C5_AllCellsConsumed ==
    (RowEntered /\ Len(CurrentTr.tds) <= TotalCells(dates_from_table)) =>
        /\ ~(GetTidesRaised /\ err[1].exc = "IndexError")
        /\ tides_for_location # <<>> => td_index = Len(CurrentTr.tds)

----------------------------------------------------------------------------
(* C6: every date of the DayColumn sequence is a key of the mapping        *)
(* get_tides returns.                                                      *)
C6_EveryDateIsKey ==
    tides_for_location # <<>> =>
        \A i \in 1..Len(dates_from_table) : dates_from_table[i][1] \in Keys(Items)

----------------------------------------------------------------------------
(* C7: a time that did not parse is None, and the daylight filter takes a  *)
(* None time as no data: with a sun window of two entries at the position  *)
(* of every date, the filter does not raise, and no kept reading has a     *)
(* None time.                                                              *)
C7_NullTimeIsNoData ==
    (/\ tides_for_location # <<>>
     /\ \A i \in 1..Len(Items) : Len(WindowAt(i)) = 2)
        => /\ ~FilterRaised
           /\ \A i \in 1..Len(filtered_tides) :
                  \A k \in 1..Len(filtered_tides[i].val) :
                      filtered_tides[i].val[k][1] # None

----------------------------------------------------------------------------
(* C8, as claimed: extract_tides is done only when the mapping of          *)
(* get_tides and the sun windows have the same length.                     *)
C8_LengthMismatchFails ==
    pc = "done" => rise_and_set # <<>> /\ Len(Items) = Len(rise_and_set[1])

(* C8, amended: extract_tides is done only when every date that has tide   *)
(* readings has a sun window at its position; a date with readings and no  *)
(* sun window makes the filter raise.                                      *)
C8_MissingWindowFails ==
    pc = "done" => \A i \in 1..Len(Items) : Items[i].val # <<>> => WindowAt(i) # <<>>

\* the filter raised at a date that has readings and no sun window
C8_Witness ==
    /\ FilterRaised
    /\ tides_for_location # <<>>
    /\ indx < Len(Items)
    /\ Items[indx + 1].val # <<>>
    /\ WindowAt(indx + 1) = <<>>

----------------------------------------------------------------------------
(* C9: get_data on the first cell of the row, when the first day takes one *)
(* cell: nothing for no group; one reading for one complete group; two     *)
(* readings in group order for two complete groups; the complete one alone *)
(* when the other of two groups lacks its height; nothing for any other    *)
(* number of groups.                                                       *)
HasSpan(div, cls) == \E k \in 1..Len(div.spans) : cls \in div.spans[k].class

SpanText(div, cls) ==
    div.spans[CHOOSE k \in 1..Len(div.spans) :
                  /\ cls \in div.spans[k].class
                  /\ \A j \in 1..(k - 1) : cls \notin div.spans[j].class].text

Complete(div) ==
    /\ HasSpan(div, "tide-table__value-low")
    /\ HasSpan(div, "tide-table__height")
    /\ HasSpan(div, "tide-table__units")

\* the reading is the one of the group div
ReadFrom(reading, div) ==
    /\ reading[1] = parse_time_str(SpanText(div, "tide-table__value-low"))
    /\ reading[2] = float(SpanText(div, "tide-table__height")).val
    /\ reading[3] = SpanText(div, "tide-table__units")

FirstCellRead ==
    /\ RowEntered
    /\ td_index >= 1
    /\ dates_from_table[1][2] = 0

C9_GetData ==
    FirstCellRead =>
        LET divs == CurrentTr.tds[1].divs
            data == ReadingsOf(tides, dates_from_table[1][1])
        IN  /\ Len(divs) = 0 => data = <<>>
            /\ (Len(divs) = 1 /\ Complete(divs[1]))
                   => Len(data) = 1 /\ ReadFrom(data[1], divs[1])
            /\ (Len(divs) = 2 /\ Complete(divs[1]) /\ Complete(divs[2]))
                   => /\ Len(data) = 2
                      /\ ReadFrom(data[1], divs[1])
                      /\ ReadFrom(data[2], divs[2])
            /\ (/\ Len(divs) = 2 /\ Complete(divs[1])
                /\ ~HasSpan(divs[2], "tide-table__height"))
                   => Len(data) = 1 /\ ReadFrom(data[1], divs[1])
            /\ (/\ Len(divs) = 2 /\ Complete(divs[2])
                /\ ~HasSpan(divs[1], "tide-table__height"))
                   => Len(data) = 1 /\ ReadFrom(data[1], divs[2])
            /\ Len(divs) \notin {0, 1, 2} => data = <<>>

\* a cell of two groups, the second without its height, gave one reading
C9_Witness ==
    /\ FirstCellRead
    /\ Len(CurrentTr.tds[1].divs) = 2
    /\ Complete(CurrentTr.tds[1].divs[1])
    /\ HasSpan(CurrentTr.tds[1].divs[2], "tide-table__value-low")
    /\ HasSpan(CurrentTr.tds[1].divs[2], "tide-table__units")
    /\ ~HasSpan(CurrentTr.tds[1].divs[2], "tide-table__height")
    /\ Len(ReadingsOf(tides, dates_from_table[1][1])) = 1

----------------------------------------------------------------------------
(* C10: get_table fetches at most two URLs; the first is the               *)
(* state-qualified one; the second, fetched only when the first page has   *)
(* no table, is the city-only one (the first without its "-state" end);    *)
(* the table returned is that of the first page that has one, and None,    *)
(* without an exception of get_table, when neither has.                    *)
IsPrefix(a, b) == Len(a) <= Len(b) /\ SubSeq(b, 1, Len(a)) = a

C10_TableLocator ==
    /\ Len(requests) <= 2
    /\ requests # <<>> => requests[1] = Url(parse_location(location).val)
    /\ Len(requests) = 2 =>
           /\ web[requests[1]] = <<>>
           /\ requests[2] # requests[1]
           /\ IsPrefix(requests[2].locations \o <<"-">>, requests[1].locations)
           /\ requests[2].base = BASE_URL /\ requests[2].page = "tides/latest"
    /\ (pc \notin {"get_table", "fallback"} /\ requests # <<>>) =>
           /\ web[requests[1]] # <<>> => Len(requests) = 1 /\ table = web[requests[1]]
           /\ web[requests[1]] = <<>> => Len(requests) = 2 /\ table = web[requests[2]]
           /\ pc = "error" => err[1].in # "parse_location"

\* get_table returned the table of the city-only page
C10_Witness ==
    /\ pc = "get_dates_from_table"
    /\ Len(requests) = 2
    /\ table # <<>>
    /\ table = web[requests[2]]

====
